---------------------------- MODULE Spec2Model ----------------------------
(***************************************************************************)
(* asciicam: src/main.rs.  The frame pipeline (CameraBuffer::get_cam,      *)
(* CharArr::get_char, write_image_buffer) as operators, and main's capture *)
(* loop as a state machine whose steps are main's fallible calls.          *)
(***************************************************************************)
EXTENDS Integers, Sequences, FiniteSets, TLC

(* ------------------------------ bounds -------------------------------- *)
\* largest camera format width/height the capture loop is run with
MaxFmt == 2
\* largest terminal width/height terminal::size() reports (0 is reported too)
MaxTerm == 2
\* loop iterations explored
MaxIter == 2
\* distinct seconds chrono::Utc::now() can report (0..MaxClock)
MaxClock == 1
\* largest dimension of the images and arguments the functions are applied to
MaxDim == 2
\* longest ramp CharArr::get_char is applied to
MaxRamp == 14

(* --------------------------- program constants ------------------------ *)
\* main.rs:110, the divisor 255_usize (the largest u8)
U8Max == 255
Bytes == 0..U8Max
\* luminance values of the decoded frames get_cam is applied to
LoopLum == {0, U8Max}
\* luminance values of the grids write_image_buffer is applied to
GridLum == {0, 128, U8Max}

\* main.rs:126-128, the charset literal
Ramp == << " ", " ", " ", ".", ":", "-", "=", "+", "*", "#", "%", "@", "?" >>
\* main.rs:134-135
CR == "\r"
LF == "\n"

\* a ramp of n distinct glyphs, glyph i-1 at position i
TestRamp(n) == [i \in 1..n |-> i - 1]

(* ------------------------- CharArr::get_char -------------------------- *)
\* main.rs:110: idx = pixel as usize * (charset.len() - 1) / 255
get_idx_div256(len, pixel) == (pixel * (len - 1)) \div (U8Max + 1)
get_idx(len, pixel) == (pixel * (len - 1)) \div U8Max

\* main.rs:109-112 (charset is 0-indexed in the code, 1-indexed here)
get_char(charset, pixel) == charset[get_idx(Len(charset), pixel) + 1]

(* ------------------------------ images -------------------------------- *)
\* image::GrayImage: width, height, row-major samples
Img(w, h, data) == [width |-> w, height |-> h, data |-> data]
NoImg == Img(0, 0, << >>)

\* all sample sequences of length n over the values vals
RECURSIVE SeqsOf(_, _)
SeqsOf(n, vals) ==
    IF n = 0 THEN { << >> }
    ELSE { Append(s, v) : s \in SeqsOf(n - 1, vals), v \in vals }

\* all w x h images, 1 <= w, h <= d, over the values vals
Images(d, vals) ==
    UNION { { Img(w, h, s) : s \in SeqsOf(w * h, vals) } : w \in 1..d, h \in 1..d }

\* image::ImageBuffer::get_pixel, main.rs:123
get_pixel(image, x, y) == image.data[y * image.width + x + 1]

(* -------------------------- write_image_buffer ------------------------ *)
\* main.rs:122-135: one row, x from bw-1 down to 0, then '\r' '\n'
RenderRow_unflipped(image, y) ==
    [i \in 1..image.width |-> get_char(Ramp, get_pixel(image, i - 1, y))]
        \o << CR, LF >>
RenderRow_lf(image, y) ==
    [i \in 1..image.width |->
        get_char(Ramp, get_pixel(image, image.width - i, y))] \o << LF >>
RenderRow(image, y) ==
    [i \in 1..image.width |->
        get_char(Ramp, get_pixel(image, image.width - i, y))] \o << CR, LF >>

\* main.rs:120-136: rows y = from .. bh-1 appended in order
RECURSIVE RenderRows(_, _)
RenderRows(image, from) ==
    IF from >= image.height THEN << >>
    ELSE RenderRow(image, from) \o RenderRows(image, from + 1)

\* main.rs:115-139: the String buf handed to write!
write_image_buffer(image) == RenderRows(image, 0)

\* main.rs:118: String::with_capacity(bw * bh + 2 * bh)
buf_capacity(image) == image.width * image.height + 2 * image.height

(* ------------------------ CameraBuffer::get_cam ----------------------- *)
\* a compressed frame: malformed, or the encoding of a width x height
\* grayscale image with the samples px (main.rs:23, stream_buf)
Jpeg(valid, w, h, px) == [valid |-> valid, width |-> w, height |-> h, px |-> px]
NoBuf == Jpeg(FALSE, 0, 0, << >>)

\* main.rs:22-28
CameraBuffer(b, sw, sh, dw, dh) ==
    [stream_buf |-> b, src_width |-> sw, src_height |-> sh,
     dst_width |-> dw, dst_height |-> dh]
NoCam == CameraBuffer(NoBuf, 0, 0, 0, 0)

CamOk(image) == [ok |-> TRUE, img |-> image, err |-> ""]
CamErr(e) == [ok |-> FALSE, img |-> NoImg, err |-> e]

\* main.rs:80-87, fr::ResizeAlg::Nearest: output sample (x, y) is the source
\* sample at (floor((x + 1/2) * sw / dw), floor((y + 1/2) * sh / dh)); the
\* source view is the first sh rows of sw samples of raw
resize_nearest(raw, sw, sh, dw, dh) ==
    [k \in 1..(dw * dh) |->
        LET x == (k - 1) % dw
            y == (k - 1) \div dw
            xin == ((2 * x + 1) * sw) \div (2 * dw)
            yin == ((2 * y + 1) * sh) \div (2 * dh)
        IN raw[yin * sw + xin + 1]]

\* get_cam without the check of dst_height (main.rs:69-74)
get_cam_nocheck(buff) ==
    LET raw == buff.stream_buf.px
        sw == buff.src_width
        sh == buff.src_height
        dw == buff.dst_width
        dh == buff.dst_height
    IN  IF ~buff.stream_buf.valid THEN CamErr("Could not decompress image")
        ELSE IF sw = 0 \/ sh = 0 THEN CamErr("Could not create NonZeroU32")
        ELSE IF Len(raw) < sw * sh THEN CamErr("InvalidBufferSize")
        ELSE IF dw = 0 THEN CamErr("Could not create NonZeroU32")
        ELSE IF dh = 0 THEN CamOk(Img(dw, 0, << >>))
        ELSE CamOk(Img(dw, dh, resize_nearest(raw, sw, sh, dw, dh)))

\* main.rs:31-101
get_cam(buff) ==
    LET raw == buff.stream_buf.px
        sw == buff.src_width
        sh == buff.src_height
        dw == buff.dst_width
        dh == buff.dst_height
    IN  \* 32-43: from_mem, grayscale, read_scanlines
        IF ~buff.stream_buf.valid THEN CamErr("Could not decompress image")
        \* 46-57: NonZeroU32::new(src_width), NonZeroU32::new(src_height)
        ELSE IF sw = 0 THEN CamErr("Could not create NonZeroU32")
        ELSE IF sh = 0 THEN CamErr("Could not create NonZeroU32")
        \* 45-60: from_vec_u8 rejects a buffer shorter than sw * sh
        ELSE IF Len(raw) < sw * sh THEN CamErr("InvalidBufferSize")
        \* 62-74: NonZeroU32::new(dst_width), NonZeroU32::new(dst_height)
        ELSE IF dw = 0 THEN CamErr("Could not create NonZeroU32")
        ELSE IF dh = 0 THEN CamErr("Could not create NonZeroU32")
        \* 76-100: resize, ImageBuffer::from_raw(dst_width, dst_height, ..)
        ELSE CamOk(Img(dw, dh, resize_nearest(raw, sw, sh, dw, dh)))

\* the compressed frames of w x h images over vals, and a malformed one
Jpegs(d, vals) ==
    { NoBuf } \cup
    UNION { { Jpeg(TRUE, w, h, s) : s \in SeqsOf(w * h, vals) } :
            w \in 1..d, h \in 1..d }

(* =========================== main: state ============================== *)
VARIABLES
    pc,        \* the call of main that runs next
    raw,       \* terminal raw mode is enabled
    disables,  \* calls of terminal::disable_raw_mode made so far
    result,    \* what main returned: "none" (running), "ok", "err"
    fmt,       \* dev.format(): the camera's frame size
    iter,      \* loop iterations begun
    pulled,    \* frames returned by stream.next() so far
    clock,     \* the second chrono::Utc::now() last reported
    files,     \* asciicam-<second>.txt, by second: exists, text
    \* the current iteration's locals and what it has done so far
    term,      \* (term_width, term_height) of line 163
    buf,       \* the compressed frame of line 164
    cam,       \* the CameraBuffer handed to get_cam
    camRes,    \* "none", or how get_cam returned: "ok", "err"
    frame,     \* the GrayImage get_cam returned
    key,       \* the event read() returned ("none": no event consumed)
    evs,       \* events consumed by read()
    fname,     \* the second in the name given to File::create (-1: none)
    save,      \* "none", "create_err", "created", "write_err", "written"
    cleared,   \* the clear-and-home sequence was written to the terminal
    shown,     \* "none", or how writing the frame to stdout went: "ok", "err"
    written,   \* the frame text written to the terminal
    \* the pipeline functions applied on their own
    call,      \* the function applied and its arguments
    ret        \* what it returned

loopVars == << term, buf, cam, camRes, frame, key, evs, fname, save, cleared,
               shown, written >>
mainVars == << pc, raw, disables, result, fmt, iter, pulled, clock, files,
               term, buf, cam, camRes, frame, key, evs, fname, save, cleared,
               shown, written >>
fnVars == << call, ret >>
vars == << pc, raw, disables, result, fmt, iter, pulled, clock, files,
           term, buf, cam, camRes, frame, key, evs, fname, save, cleared,
           shown, written, call, ret >>

NoFile == [exists |-> FALSE, text |-> << >>]
NoCall == [fn |-> "none"]

\* crossterm events: Key(Char(c)) for c = q, s, x; Key(Enter); Resize
Events == {"q", "s", "x", "Enter", "Resize"}

\* the proper prefixes of a text: what a failed write may leave behind
Prefixes(t) == { SubSeq(t, 1, k) : k \in 0..(Len(t) - 1) }

Init ==
    /\ pc = "open"
    /\ raw = FALSE
    /\ disables = 0
    /\ result = "none"
    /\ fmt = [width |-> 0, height |-> 0]
    /\ iter = 0
    /\ pulled = 0
    /\ clock = 0
    /\ files = [t \in 0..MaxClock |-> NoFile]
    /\ term = << 0, 0 >>
    /\ buf = NoBuf
    /\ cam = NoCam
    /\ camRes = "none"
    /\ frame = NoImg
    /\ key = "none"
    /\ evs = 0
    /\ fname = -1
    /\ save = "none"
    /\ cleared = FALSE
    /\ shown = "none"
    /\ written = << >>
    /\ call = NoCall
    /\ ret = << >>

(* =========================== main: steps ============================== *)
\* `?` on an Err: main returns it at once
ReturnErr ==
    /\ pc' = "done"
    /\ result' = "err"

\* main.rs:142-158: open device 0, read and set the format, map the buffers
Open ==
    /\ pc = "open"
    /\ \/ /\ \E w \in 1..MaxFmt, h \in 1..MaxFmt :
                fmt' = [width |-> w, height |-> h]
          /\ pc' = "enable_raw_mode"
          /\ UNCHANGED result
       \/ /\ ReturnErr
          /\ UNCHANGED fmt
    /\ UNCHANGED << raw, disables, iter, pulled, clock, files >>
    /\ UNCHANGED loopVars
    /\ UNCHANGED fnVars

\* main.rs:160
EnableRawMode ==
    /\ pc = "enable_raw_mode"
    /\ \/ /\ raw' = TRUE
          /\ pc' = "size"
          /\ UNCHANGED result
       \/ /\ ReturnErr
          /\ UNCHANGED raw
    /\ UNCHANGED << disables, fmt, iter, pulled, clock, files >>
    /\ UNCHANGED loopVars
    /\ UNCHANGED fnVars

\* main.rs:162-163: an iteration begins with fresh locals; terminal::size()?
TermSize ==
    /\ pc = "size"
    /\ iter < MaxIter
    /\ iter' = iter + 1
    /\ buf' = NoBuf
    /\ cam' = NoCam
    /\ camRes' = "none"
    /\ frame' = NoImg
    /\ key' = "none"
    /\ evs' = 0
    /\ fname' = -1
    /\ save' = "none"
    /\ cleared' = FALSE
    /\ shown' = "none"
    /\ written' = << >>
    /\ \/ /\ \E w \in 0..MaxTerm, h \in 0..MaxTerm : term' = << w, h >>
          /\ pc' = "next"
          /\ UNCHANGED result
       \/ /\ ReturnErr
          /\ term' = << 0, 0 >>
    /\ UNCHANGED << raw, disables, fmt, pulled, clock, files >>
    /\ UNCHANGED fnVars

\* the frames the camera delivers: a dark image and a striped one of the
\* negotiated size
CameraFrames ==
    { Jpeg(TRUE, fmt.width, fmt.height, [k \in 1..(fmt.width * fmt.height) |-> 0]),
      Jpeg(TRUE, fmt.width, fmt.height,
           [k \in 1..(fmt.width * fmt.height) |-> IF k % 2 = 1 THEN U8Max ELSE 0]) }

\* main.rs:164: stream.next()? blocks until the camera delivers a frame, a
\* compressed image of the negotiated size or a malformed one
StreamNext ==
    /\ pc = "next"
    /\ \/ /\ buf' \in { NoBuf } \cup CameraFrames
          /\ pulled' = pulled + 1
          /\ pc' = "get_cam"
          /\ UNCHANGED result
       \/ /\ ReturnErr
          /\ UNCHANGED << buf, pulled >>
    /\ UNCHANGED << raw, disables, fmt, iter, clock, files >>
    /\ UNCHANGED << term, cam, camRes, frame, key, evs, fname, save, cleared,
                    shown, written >>
    /\ UNCHANGED fnVars

\* main.rs:165-171: the struct literal
Metadata ==
    [stream_buf |-> buf,
     src_width |-> fmt.width,
     dst_height |-> fmt.height,
     src_height |-> term[2],
     dst_width |-> term[1]]

\* main.rs:173-179 with a failed frame skipped instead of returned
GetCam_skip ==
    /\ pc = "get_cam"
    /\ cam' = Metadata
    /\ LET r == get_cam(Metadata)
       IN  /\ camRes' = IF r.ok THEN "ok" ELSE "err"
           /\ frame' = r.img
           /\ pc' = "poll"
    /\ UNCHANGED << raw, disables, result, fmt, iter, pulled, clock, files >>
    /\ UNCHANGED << term, buf, key, evs, fname, save, cleared, shown, written >>
    /\ UNCHANGED fnVars

\* main.rs:165-179: get_cam; on Err, disable_raw_mode()? and return the error
GetCam ==
    /\ pc = "get_cam"
    /\ cam' = Metadata
    /\ LET r == get_cam(Metadata)
       IN  IF r.ok
           THEN /\ camRes' = "ok"
                /\ frame' = r.img
                /\ pc' = "poll"
                /\ UNCHANGED << raw, disables, result >>
           ELSE /\ camRes' = "err"
                /\ frame' = NoImg
                /\ disables' = disables + 1
                /\ raw' \in { FALSE, raw }
                /\ ReturnErr
    /\ UNCHANGED << fmt, iter, pulled, clock, files >>
    /\ UNCHANGED << term, buf, key, evs, fname, save, cleared, shown, written >>
    /\ UNCHANGED fnVars

\* main.rs:181: poll(0s)?
Poll ==
    /\ pc = "poll"
    /\ \/ /\ pc' = "read"
          /\ UNCHANGED result
       \/ /\ pc' = "clear"
          /\ UNCHANGED result
       \/ ReturnErr
    /\ UNCHANGED << raw, disables, fmt, iter, pulled, clock, files >>
    /\ UNCHANGED loopVars
    /\ UNCHANGED fnVars

\* main.rs:182-202 with every character key but 's' taken as quit
Read_anyquit ==
    /\ pc = "read"
    /\ \/ /\ \E e \in Events :
                /\ key' = e
                /\ pc' = CASE e = "s" -> "create"
                           [] e \in {"q", "x"} -> "disable_raw_mode"
                           [] OTHER -> "clear"
          /\ evs' = evs + 1
          /\ UNCHANGED result
       \/ /\ ReturnErr
          /\ UNCHANGED << key, evs >>
    /\ UNCHANGED << raw, disables, fmt, iter, pulled, clock, files >>
    /\ UNCHANGED << term, buf, cam, camRes, frame, fname, save, cleared, shown,
                    written >>
    /\ UNCHANGED fnVars

\* main.rs:182-202 with every character key but 'q' taken as save
Read_anysave ==
    /\ pc = "read"
    /\ \/ /\ \E e \in Events :
                /\ key' = e
                /\ pc' = CASE e = "q" -> "disable_raw_mode"
                           [] e \in {"s", "x"} -> "create"
                           [] OTHER -> "clear"
          /\ evs' = evs + 1
          /\ UNCHANGED result
       \/ /\ ReturnErr
          /\ UNCHANGED << key, evs >>
    /\ UNCHANGED << raw, disables, fmt, iter, pulled, clock, files >>
    /\ UNCHANGED << term, buf, cam, camRes, frame, fname, save, cleared, shown,
                    written >>
    /\ UNCHANGED fnVars

\* main.rs:182-202: read()? and the match on the event
Read ==
    /\ pc = "read"
    /\ \/ /\ \E e \in Events :
                /\ key' = e
                /\ pc' = CASE e = "q" -> "disable_raw_mode"
                           [] e = "s" -> "create"
                           [] OTHER -> "clear"
          /\ evs' = evs + 1
          /\ UNCHANGED result
       \/ /\ ReturnErr
          /\ UNCHANGED << key, evs >>
    /\ UNCHANGED << raw, disables, fmt, iter, pulled, clock, files >>
    /\ UNCHANGED << term, buf, cam, camRes, frame, fname, save, cleared, shown,
                    written >>
    /\ UNCHANGED fnVars

\* main.rs:192-196: the name is taken from the clock, which never runs back;
\* File::create makes the file or truncates the one of that name
Create ==
    /\ pc = "create"
    /\ \E now \in clock..MaxClock :
        /\ clock' = now
        /\ fname' = now
        /\ \/ /\ files' = [files EXCEPT ![now] = [exists |-> TRUE, text |-> << >>]]
              /\ save' = "created"
              /\ pc' = "save"
              /\ UNCHANGED result
           \/ /\ save' = "create_err"
              /\ ReturnErr
              /\ UNCHANGED files
    /\ UNCHANGED << raw, disables, fmt, iter, pulled >>
    /\ UNCHANGED << term, buf, cam, camRes, frame, key, evs, cleared, shown,
                    written >>
    /\ UNCHANGED fnVars

\* main.rs:197: write_image_buffer(&frame, &mut file)?
Save ==
    /\ pc = "save"
    /\ \/ /\ files' = [files EXCEPT ![fname].text = write_image_buffer(frame)]
          /\ save' = "written"
          /\ pc' = "clear"
          /\ UNCHANGED result
       \/ /\ \E part \in Prefixes(write_image_buffer(frame)) :
                files' = [files EXCEPT ![fname].text = part]
          /\ save' = "write_err"
          /\ ReturnErr
    /\ UNCHANGED << raw, disables, fmt, iter, pulled, clock >>
    /\ UNCHANGED << term, buf, cam, camRes, frame, key, evs, fname, cleared,
                    shown, written >>
    /\ UNCHANGED fnVars

\* main.rs:204-208: execute!(stdout, Clear(All), MoveTo(0, 0))?
Clear ==
    /\ pc = "clear"
    /\ \/ /\ cleared' = TRUE
          /\ pc' = "write"
          /\ UNCHANGED result
       \/ /\ ReturnErr
          /\ UNCHANGED cleared
    /\ UNCHANGED << raw, disables, fmt, iter, pulled, clock, files >>
    /\ UNCHANGED << term, buf, cam, camRes, frame, key, evs, fname, save, shown,
                    written >>
    /\ UNCHANGED fnVars

\* main.rs:210: write_image_buffer(&frame, &mut stdout)?
Write ==
    /\ pc = "write"
    /\ \/ /\ written' = write_image_buffer(frame)
          /\ shown' = "ok"
          /\ pc' = "flush"
          /\ UNCHANGED result
       \/ /\ written' \in Prefixes(write_image_buffer(frame))
          /\ shown' = "err"
          /\ ReturnErr
    /\ UNCHANGED << raw, disables, fmt, iter, pulled, clock, files >>
    /\ UNCHANGED << term, buf, cam, camRes, frame, key, evs, fname, save,
                    cleared >>
    /\ UNCHANGED fnVars

\* main.rs:212-213: stdout.flush()?, then the next iteration
Flush ==
    /\ pc = "flush"
    /\ \/ /\ pc' = "size"
          /\ UNCHANGED result
       \/ ReturnErr
    /\ UNCHANGED << raw, disables, fmt, iter, pulled, clock, files >>
    /\ UNCHANGED loopVars
    /\ UNCHANGED fnVars

\* main.rs:215-217: after the break, disable_raw_mode()? and Ok(())
DisableRawMode ==
    /\ pc = "disable_raw_mode"
    /\ disables' = disables + 1
    /\ pc' = "done"
    /\ \/ /\ raw' = FALSE
          /\ result' = "ok"
       \/ /\ raw' = raw
          /\ result' = "err"
    /\ UNCHANGED << fmt, iter, pulled, clock, files >>
    /\ UNCHANGED loopVars
    /\ UNCHANGED fnVars

Next ==
    \/ Open
    \/ EnableRawMode
    \/ TermSize
    \/ StreamNext
    \/ GetCam
    \/ Poll
    \/ Read
    \/ Create
    \/ Save
    \/ Clear
    \/ Write
    \/ Flush
    \/ DisableRawMode

Spec == Init /\ [][Next]_vars

(* ================== the pipeline functions on their own =============== *)
\* CharArr::get_char on a ramp of n glyphs and a byte
CallGetChar ==
    /\ call = NoCall
    /\ \E n \in 2..MaxRamp, p \in Bytes :
        /\ call' = [fn |-> "get_char", charset |-> TestRamp(n), pixel |-> p]
        /\ ret' = get_char(TestRamp(n), p)
    /\ UNCHANGED mainVars

\* CameraBuffer::get_cam on any dimensions, zero included
CallGetCam ==
    /\ call = NoCall
    /\ \E b \in Jpegs(MaxDim, LoopLum),
          sw \in 0..MaxDim, sh \in 0..MaxDim, dw \in 0..MaxDim, dh \in 0..MaxDim :
        /\ call' = [fn |-> "get_cam", buff |-> CameraBuffer(b, sw, sh, dw, dh)]
        /\ ret' = get_cam(CameraBuffer(b, sw, sh, dw, dh))
    /\ UNCHANGED mainVars

\* write_image_buffer on every 1 x 1 image and on the sampled larger ones
CallWriteImageBuffer ==
    /\ call = NoCall
    /\ \E image \in Images(1, Bytes) \cup Images(MaxDim, GridLum) :
        /\ call' = [fn |-> "write_image_buffer", image |-> image]
        /\ ret' = write_image_buffer(image)
    /\ UNCHANGED mainVars

NextFn ==
    \/ CallGetChar
    \/ CallGetCam
    \/ CallWriteImageBuffer

SpecFn == Init /\ [][NextFn]_vars

(* ============================== claims ================================ *)
LoopPcs == {"size", "next", "get_cam", "poll", "read", "create", "save",
            "clear", "write", "flush"}
Running == pc \in LoopPcs
Stopped == pc \in {"disable_raw_mode", "done"}
\* raw mode was enabled: the loop's first step has been taken
LoopEntered == iter >= 1

\* line y (0-based) of a text of lines of w characters plus CR LF
Line(text, w, y) == SubSeq(text, y * (w + 2) + 1, y * (w + 2) + w)
\* text is h lines of exactly w characters, each followed by CR LF
IsGridText(text, w, h) ==
    /\ Len(text) = h * (w + 2)
    /\ \A y \in 0..(h - 1) :
        /\ \A i \in 1..w : Line(text, w, y)[i] \notin {CR, LF}
        /\ text[y * (w + 2) + w + 1] = CR
        /\ text[y * (w + 2) + w + 2] = LF

\* C1: once raw mode is enabled, every return of main has disabled raw mode
\* exactly once; no exit state has raw mode still enabled.
C1_RawModeRestoredOnEveryExit ==
    (pc = "done" /\ LoopEntered) => (raw = FALSE /\ disables = 1)

\* C2: in every iteration get_cam is called with the camera's frame size as the
\* source dimensions and the terminal size read in that iteration as the target
\* dimensions, so the frame written has `rows` lines of `columns` characters.
C2_PipelineDimensions ==
    /\ camRes # "none" =>
        /\ cam.src_width = fmt.width
        /\ cam.src_height = fmt.height
        /\ cam.dst_width = term[1]
        /\ cam.dst_height = term[2]
    /\ shown = "ok" => IsGridText(written, term[1], term[2])

\* C3: a call of get_cam with a zero src_width, src_height, dst_width or
\* dst_height returns an error, never Ok with an empty or other grid.
C3_ZeroDimensionIsError ==
    (/\ call.fn = "get_cam"
     /\ \/ call.buff.src_width = 0
        \/ call.buff.src_height = 0
        \/ call.buff.dst_width = 0
        \/ call.buff.dst_height = 0)
    => (~ret.ok /\ ret.img = NoImg /\ ret.err # "")

C3_Witness ==
    /\ call.fn = "get_cam"
    /\ call.buff.stream_buf.valid
    /\ call.buff.src_width = call.buff.stream_buf.width
    /\ call.buff.src_height = call.buff.stream_buf.height
    /\ call.buff.dst_width > 0
    /\ call.buff.dst_height = 0
    /\ ~ret.ok

C5_LinesAndLength ==
    call.fn = "write_image_buffer" =>
        LET W == call.image.width
            H == call.image.height
        IN  /\ Len(ret) = W * H + 2 * H
            /\ Len(ret) = buf_capacity(call.image)
            /\ IsGridText(ret, W, H)
            /\ \A y \in 0..(H - 1) :
                { Line(ret, W, y)[i] : i \in 1..W } =
                { Ramp[get_idx(Len(Ramp), get_pixel(call.image, x, y)) + 1] :
                      x \in 0..(W - 1) }

C5_Witness ==
    /\ call.fn = "write_image_buffer"
    /\ call.image.width = 2
    /\ call.image.height = 2
    /\ call.image.data = << 0, 128, U8Max, U8Max >>
    /\ ret = << "=", " ", CR, LF, "?", "?", CR, LF >>

C7_FailedFrameEndsLoop ==
    camRes = "err" =>
        /\ pc = "done"
        /\ result = "err"
        /\ key = "none"
        /\ evs = 0
        /\ save = "none"
        /\ fname = -1
        /\ ~cleared
        /\ shown = "none"
        /\ written = << >>
        /\ ~ENABLED Next

C7_Witness ==
    /\ camRes = "err"
    /\ ~buf.valid
    /\ iter = 2
    /\ pulled = 2
    /\ pc = "done"

\* C8 as claimed: each 's' event consumed creates exactly one file
\* asciicam-<timestamp>.txt whose content is the rendered text of that
\* iteration's frame, identical to what the iteration then writes to the
\* terminal; an iteration that consumes no 's' event creates no file.
C8_SaveCreatesOneFile ==
    /\ (key = "s" /\ pc # "create") =>
        /\ save \in {"created", "written"}
        /\ fname = clock
        /\ files[fname].exists
        /\ pc # "save" => files[fname].text = write_image_buffer(frame)
        /\ shown # "none" => written = files[fname].text
    /\ key # "s" => (save = "none" /\ fname = -1)

\* C8 as the code has it: each 's' event consumed makes exactly one call of
\* File::create, for asciicam-<timestamp>.txt; when that call and the write to
\* the file succeed, the file of that name holds exactly the rendered text of
\* that iteration's frame, which is also what the iteration writes to the
\* terminal if its write to the terminal succeeds; a failed create or write
\* ends main with the error before anything is written to the terminal; an
\* iteration that consumes no 's' event calls File::create not at all.
C8_SaveWritesFrameOrFails ==
    /\ (key = "s" /\ pc # "create") =>
        /\ save # "none"
        /\ fname = clock
    /\ save \in {"created", "written", "write_err"} => files[fname].exists
    /\ save = "written" =>
        /\ files[fname].text = write_image_buffer(frame)
        /\ shown = "ok" => written = files[fname].text
    /\ save \in {"create_err", "write_err"} =>
        /\ pc = "done"
        /\ result = "err"
        /\ ~cleared
        /\ shown = "none"
    /\ key # "s" => (save = "none" /\ fname = -1)

C8_Witness ==
    /\ key = "s"
    /\ iter = 2
    /\ save = "written"
    /\ shown = "ok"
    /\ frame.width = 2
    /\ frame.height = 2
    /\ files[fname].text = written
    /\ Len(written) = 8

\* C9: the loop leaves RUNNING only by consuming a 'q' event or by a returned
\* error; an iteration consumes at most one event; an event other than 'q' and
\* 's' leaves it RUNNING and changes nothing else; 'q' stops the loop before
\* that iteration's frame is written to the terminal; once STOPPED no frame is
\* pulled or written.
C9_LoopStateMachine ==
    [][ /\ evs' <= 1
        /\ (Running /\ ~Running') =>
            \/ pc = "read" /\ key' = "q" /\ pc' = "disable_raw_mode"
            \/ pc' = "done" /\ result' = "err"
        /\ (pc = "read" /\ evs' = evs + 1 /\ key' \notin {"q", "s"}) =>
            /\ pc' = "clear"
            /\ UNCHANGED << raw, disables, result, fmt, iter, pulled, clock,
                            files, term, buf, cam, camRes, frame, fname, save,
                            cleared, shown, written >>
        /\ (pc = "read" /\ key' = "q") =>
            /\ Stopped'
            /\ ~cleared'
            /\ shown' = "none"
            /\ written' = << >>
        /\ Stopped =>
            /\ Stopped'
            /\ UNCHANGED << iter, pulled, files, cleared, shown, written >>
      ]_vars

C9_Witness ==
    /\ pc = "done"
    /\ result = "ok"
    /\ key = "q"
    /\ iter = 2
    /\ pulled = 2
    /\ ~cleared

\* C10: the last entry of the 13-character ramp, '?', is never displayed: every
\* character write_image_buffer emits for a byte is one of the first 12 entries.
C10_LastGlyphNeverShown ==
    call.fn = "write_image_buffer" =>
        \A k \in 1..Len(ret) :
            ret[k] \in { Ramp[i] : i \in 1..(Len(Ramp) - 1) } \cup {CR, LF}

=============================================================================
